---- MODULE Spec2Model ----
(***************************************************************************)
(* Model of src/main.py: the DataAnalyzer session (load_data,              *)
(* generate_sample_data, analyze, create_visualizations) and the main()    *)
(* workflow, together with the parts of the environment they touch: the    *)
(* data file, the global numpy random generator, the output directory,     *)
(* the written images and matplotlib's open figures.                       *)
(*                                                                         *)
(* Values.  A table (DataFrame) is [columns, dtypes, values, isna, nrows]:  *)
(* values[c] is the sequence of the cells of column c and isna[c] the set  *)
(* of the rows where the cell is missing (NaN).  A cell of an int64 column *)
(* is an integer, of a float64 column an integer number of hundredths, of  *)
(* a datetime64[ns] column the number of days after 2023-01-01, of a bool  *)
(* column a boolean and of an object column a string.  Python's None is    *)
(* the empty sequence and an object x that may be None is <<x>>.           *)
(***************************************************************************)
EXTENDS Integers, Sequences, FiniteSets, TLC

VARIABLES
    data_path,    \* self.data_path of the analyzer under test
    data,         \* self.data of the analyzer under test: None or <<table>>
    disk,         \* content of the file at DefaultPath: None or <<csv>>
    rng,          \* state of numpy's global random generator
    fs,           \* output paths -> "absent" | "dir" | "file"
    images,       \* <<dir, file name>> -> None or <<panels>> of the image last saved
    openFigs,     \* number of matplotlib figures currently open
    ret,          \* outcome of the last call
    lastSample    \* None, or <<t>>: the table generate_sample_data returned last

vars == <<data_path, data, disk, rng, fs, images, openFigs, ret, lastSample>>

None == <<>>

----------------------------------------------------------------------------
(* Bounds of the model *)

\* number of states of the global random generator (a counter modulo RngMod)
RngMod == 2

----------------------------------------------------------------------------
(* Cells and tables *)

Range(s) == {s[i] : i \in DOMAIN s}

\* pd.DataFrame(): no rows, no columns
EmptyDataFrame ==
    [columns |-> <<>>, dtypes |-> <<>>, values |-> <<>>, isna |-> <<>>,
     nrows |-> 0]

\* DataFrame.shape
shape(t) == <<t.nrows, Len(t.columns)>>

\* DataFrame.select_dtypes(include=...): the columns, in table order, whose
\* dtype is selected; np.number selects the integer and float dtypes only
select_dtypes(t, include) ==
    SelectSeq(t.columns, LAMBDA c :
        \/ t.dtypes[c] \in include
        \/ "number" \in include /\ t.dtypes[c] \in {"int64", "float64"})

----------------------------------------------------------------------------
(* numpy's global random generator.  The generator is a counter: seeding   *)
(* sets it, the k-th draw from state s is a fixed function of s + k, and n *)
(* draws advance it by n.                                                  *)

Mix(x) == (x * x + 3 * x + 7) % 1009

\* np.random.seed(seed)
seed(s) == s % RngMod

\* the i-th value of a batch of n draws that starts in generator state r
Draw(r, i) == Mix(r + i)

\* generator state after n draws
Advance(r, n) == (r + n) % RngMod

\* np.random.choice(options, n)[i]: uniform over the options
choice(options, r, i) == options[(Draw(r, i) % Len(options)) + 1]

\* np.random.choice([True, False], n, p=[0.7, 0.3])[i]
choice_p(r, i) == (Draw(r, i) % 10) < 7

\* np.random.normal(loc, scale, n)[i], in hundredths, within 3 scale of loc
normal(loc, scale, r, i) ==
    loc * 100 + ((Draw(r, i) * 37) % (6 * scale * 100 + 1)) - 3 * scale * 100

----------------------------------------------------------------------------
(* DataAnalyzer.generate_sample_data *)

SampleSeed == 42
\* a sample one row short
n_samples_short == 1000 - 1

n_samples == 1000
Categories == <<"A", "B", "C", "D">>
SampleColumns == <<"id", "categoria", "valor", "data", "ativo">>

\* the DataFrame built from the dict of lines 58-64 when the generator is in
\* state r at the first draw
SampleFrame(r) ==
    LET r1 == Advance(r, n_samples)
        r2 == Advance(r1, n_samples)
    IN  [columns |-> SampleColumns,
         dtypes  |-> [c \in Range(SampleColumns) |->
                        CASE c = "id"        -> "int64"
                          [] c = "categoria" -> "object"
                          [] c = "valor"     -> "float64"
                          [] c = "data"      -> "datetime64[ns]"
                          [] c = "ativo"     -> "bool"],
         values  |-> [c \in Range(SampleColumns) |->
                        CASE c = "id"        -> [i \in 1..n_samples |-> i]
                          [] c = "categoria" ->
                               [i \in 1..n_samples |-> choice(Categories, r, i)]
                          [] c = "valor"     ->
                               [i \in 1..n_samples |-> normal(100, 25, r1, i)]
                          [] c = "data"      -> [i \in 1..n_samples |-> i - 1]
                          [] c = "ativo"     ->
                               [i \in 1..n_samples |-> choice_p(r2, i)]],
         isna    |-> [c \in Range(SampleColumns) |-> {}],
         nrows   |-> n_samples]

\* A call works on a world w = [data_path, data, rng, fs, images, openFigs,
\* lastSample] and yields [w, value, raised, error, loads, gens, tables]: the
\* world after the call, the returned object (None or <<x>>), whether it
\* raised and what, how many times load_data and generate_sample_data ran
\* during it and, for main, the tables its steps handled.
\* lines 66-68: the table t becomes the cached table and is returned
StoreSample(w, r, t) ==
    [w      |-> [w EXCEPT !.rng = r, !.data = <<t>>, !.lastSample = <<t>>],
     value  |-> <<t>>,
     raised |-> FALSE,
     error  |-> "",
     loads  |-> 0,
     gens   |-> 1,
     tables |-> <<>>]

\* generate_sample_data without np.random.seed: the draws start where the
\* generator stands
generate_sample_data_unseeded(w) ==
    StoreSample(w, Advance(w.rng, 3 * n_samples), SampleFrame(w.rng))

generate_sample_data(w) ==
    StoreSample(w, Advance(seed(SampleSeed), 3 * n_samples),
                SampleFrame(seed(SampleSeed)))

----------------------------------------------------------------------------
(* The data file and pd.read_csv.  A csv is [header, rows]; a field of a   *)
(* row is a token <<"int", n>>, <<"float", h>>, <<"bool", b>>,             *)
(* <<"text", s>> or <<"empty">>.                                           *)

DefaultPath == "data/sample_data.csv"
NonexistentPath == "arquivo_inexistente.csv"
DataPaths == {DefaultPath, NonexistentPath}

\* Path.exists() of a data path: only DefaultPath can name a file
exists(p) == p = DefaultPath /\ disk # None

\* the field of row r under column j; a short row is padded with empty fields
Field(csv, r, j) ==
    IF j <= Len(csv.rows[r]) THEN csv.rows[r][j] ELSE <<"empty">>

\* dtype pandas infers for column j from the kinds of its fields
InferDtype(csv, j) ==
    LET kinds == {Field(csv, r, j)[1] : r \in 1..Len(csv.rows)}
    IN  IF kinds = {} THEN "object"
        ELSE IF kinds = {"int"} THEN "int64"
        ELSE IF kinds \subseteq {"int", "float", "empty"} THEN "float64"
        ELSE IF kinds = {"bool"} THEN "bool"
        ELSE "object"

\* the cell a field becomes in a column of the given dtype; a missing cell
\* holds the zero of the column's type
Convert(tok, dtype) ==
    IF dtype = "int64" THEN tok[2]
    ELSE IF dtype = "float64"
    THEN (IF tok[1] = "int" THEN tok[2] * 100
          ELSE IF tok[1] = "float" THEN tok[2] ELSE 0)
    ELSE IF dtype = "bool" THEN tok[2]
    ELSE IF tok[1] = "empty" THEN ""
    ELSE IF tok[1] = "text" THEN tok[2]
    ELSE IF tok[1] = "bool" THEN (IF tok[2] THEN "True" ELSE "False")
    ELSE ToString(tok[2])

\* pd.read_csv: [ok, table, error].  An empty file raises EmptyDataError and
\* a line with more fields than the header raises ParserError.
read_csv(csv) ==
    IF Len(csv.header) = 0
    THEN [ok |-> FALSE, table |-> None, error |-> "EmptyDataError"]
    ELSE IF \E r \in 1..Len(csv.rows) : Len(csv.rows[r]) > Len(csv.header)
    THEN [ok |-> FALSE, table |-> None, error |-> "ParserError"]
    ELSE LET cols == Range(csv.header)
             J(c) == CHOOSE j \in 1..Len(csv.header) : csv.header[j] = c
             dt   == [c \in cols |-> InferDtype(csv, J(c))]
         IN  [ok    |-> TRUE,
              table |-> <<[columns |-> csv.header,
                           dtypes  |-> dt,
                           values  |-> [c \in cols |->
                                          [r \in 1..Len(csv.rows) |->
                                             Convert(Field(csv, r, J(c)), dt[c])]],
                           isna    |-> [c \in cols |->
                                          {r \in 1..Len(csv.rows) :
                                             Field(csv, r, J(c))[1] = "empty"}],
                           nrows   |-> Len(csv.rows)]>>,
              error |-> ""]

CsvOnlyId ==
    [header |-> <<"id">>,
     rows   |-> << <<(<<"int", 1>>)>>, <<(<<"int", 2>>)>>, <<(<<"int", 3>>)>> >>]

CsvLabels ==
    [header |-> <<"nome", "ativo">>,
     rows   |-> << << <<"text", "ana">>, <<"bool", TRUE>> >>,
                   << <<"text", "bia">>, <<"bool", FALSE>> >>,
                   << <<"text", "ana">>, <<"bool", TRUE>> >> >>]

CsvMixed ==
    [header |-> <<"id", "valor", "categoria", "ativo">>,
     rows   |-> << << <<"int", 1>>, <<"int", 7>>,     <<"text", "A">>, <<"bool", TRUE>> >>,
                   << <<"int", 2>>, <<"empty">>,      <<"text", "B">>, <<"bool", TRUE>> >>,
                   << <<"int", 3>>, <<"float", 250>>, <<"text", "A">> >> >>]

CsvMalformed ==
    [header |-> <<"id", "valor">>,
     rows   |-> << << <<"int", 1>>, <<"int", 7>> >>,
                   << <<"int", 2>>, <<"int", 8>>, <<"int", 9>> >> >>]

CsvEmptyFile == [header |-> <<>>, rows |-> <<>>]

\* what the file at DefaultPath may hold: nothing (no file) or a csv
DiskContents ==
    {None, <<CsvOnlyId>>, <<CsvLabels>>, <<CsvMixed>>, <<CsvMalformed>>,
     <<CsvEmptyFile>>}

----------------------------------------------------------------------------
(* DataAnalyzer.load_data *)

\* load_data without its except clause: a failure to parse reaches the caller
StoreParsedUncaught(w, parsed) ==
    [w      |-> IF parsed.ok THEN [w EXCEPT !.data = parsed.table] ELSE w,
     value  |-> parsed.table,
     raised |-> ~parsed.ok,
     error  |-> parsed.error,
     loads  |-> 1,
     gens   |-> 0,
     tables |-> <<>>]

\* lines 39-41 and 45-47: the parsed table is cached and returned; a failure
\* to parse is caught and the sample takes its place
StoreParsed(w, parsed) ==
    IF parsed.ok
    THEN [w      |-> [w EXCEPT !.data = parsed.table],
          value  |-> parsed.table,
          raised |-> FALSE,
          error  |-> "",
          loads  |-> 1,
          gens   |-> 0,
          tables |-> <<>>]
    ELSE [generate_sample_data(w) EXCEPT !.loads = 1]

load_data(w) ==
    IF exists(w.data_path)
    THEN StoreParsed(w, read_csv(disk[1]))
    ELSE [generate_sample_data(w) EXCEPT !.loads = 1]

----------------------------------------------------------------------------
(* Column statistics, of a column col whose missing rows are na *)

\* Series.isnull().sum()
isnull_sum(col, na) == Cardinality(na)

\* Series.count(): the cells that are not missing
count(col, na) == Len(col) - Cardinality(na)

\* the sum of the cells lo..hi that are not missing
RECURSIVE SumRange(_, _, _, _)
SumRange(col, na, lo, hi) ==
    IF lo > hi THEN 0
    ELSE IF lo = hi THEN (IF lo \in na THEN 0 ELSE col[lo])
    ELSE LET mid == (lo + hi) \div 2
         IN  SumRange(col, na, lo, mid) + SumRange(col, na, mid + 1, hi)

\* None, or <<m>>: the least (sign = 1) or greatest (sign = -1) of the cells
\* lo..hi that are not missing
RECURSIVE Extreme(_, _, _, _, _)
Extreme(col, na, lo, hi, sign) ==
    IF lo > hi THEN None
    ELSE IF lo = hi THEN (IF lo \in na THEN None ELSE <<col[lo]>>)
    ELSE LET mid == (lo + hi) \div 2
             a   == Extreme(col, na, lo, mid, sign)
             b   == Extreme(col, na, mid + 1, hi, sign)
         IN  IF a = None THEN b
             ELSE IF b = None THEN a
             ELSE IF sign * a[1] <= sign * b[1] THEN a ELSE b

\* one column of DataFrame.describe(): count, mean (rounded down), min and
\* max, in the unit of the cells (the standard deviation and the quartiles
\* are real-valued and are not modelled); a statistic of a column without
\* values is None
describe_column(col, na) ==
    [count |-> count(col, na),
     mean  |-> IF count(col, na) = 0 THEN None
               ELSE <<SumRange(col, na, 1, Len(col)) \div count(col, na)>>,
     min   |-> Extreme(col, na, 1, Len(col), 1),
     max   |-> Extreme(col, na, 1, Len(col), -1)]

\* one column of describe() of a table without numeric columns: count and
\* unique (top and freq are not modelled)
describe_object(col, na) ==
    [count  |-> count(col, na),
     unique |-> Cardinality({col[i] : i \in DOMAIN col \ na})]

\* DataFrame.describe().to_dict(), as [raised, value]: with the default
\* include it summarises the numeric and the datetime columns when there is
\* at least one and every column otherwise; a table without columns raises
\* ValueError
describe(t) ==
    IF Len(t.columns) = 0
    THEN [raised |-> TRUE, value |-> None]
    ELSE IF Len(select_dtypes(t, {"number", "datetime64[ns]"})) = 0
    THEN [raised |-> FALSE,
          value  |-> <<[c \in Range(t.columns) |->
                          describe_object(t.values[c], t.isna[c])]>>]
    ELSE [raised |-> FALSE,
          value  |-> <<[c \in Range(select_dtypes(t, {"number", "datetime64[ns]"})) |->
                          describe_column(t.values[c], t.isna[c])]>>]

\* Series.value_counts().to_dict(): each value that is not missing -> frequency
value_counts(col, na) ==
    [v \in {col[i] : i \in DOMAIN col \ na} |->
        Cardinality({i \in DOMAIN col \ na : col[i] = v})]

----------------------------------------------------------------------------
(* DataAnalyzer.analyze *)

\* the call that did nothing: what `if self.data is None` skips
Skip(w) ==
    [w |-> w, value |-> None, raised |-> FALSE, error |-> "", loads |-> 0,
     gens |-> 0, tables |-> <<>>]

\* a session that loads at every call
EnsureLoadedAlways(w) == load_data(w)

\* lines 76-77 and 97-98
EnsureLoaded(w) == IF w.data = None THEN load_data(w) ELSE Skip(w)

\* line 84 without its condition
numeric_summary_unguarded(t) == describe(t)

\* line 84 with the condition on the columns of any dtype
numeric_summary_any_column(t) ==
    IF Len(t.columns) > 0
    THEN describe(t)
    ELSE [raised |-> FALSE, value |-> << <<>> >>]

\* line 84: describe() is called only if the table has a numeric column
numeric_summary(t) ==
    IF Len(select_dtypes(t, {"number"})) > 0
    THEN describe(t)
    ELSE [raised |-> FALSE, value |-> << <<>> >>]

\* lines 85-86
categorical_summary(t) ==
    [c \in Range(select_dtypes(t, {"object", "category"})) |->
        value_counts(t.values[c], t.isna[c])]

\* lines 79-89 on the cached table t, pre being the outcome of lines 76-77
Analysis(pre, t, numeric) ==
    IF numeric.raised
    THEN [pre EXCEPT !.raised = TRUE, !.error = "ValueError"]
    ELSE [pre EXCEPT !.value =
            <<[shape               |-> shape(t),
               columns             |-> t.columns,
               dtypes              |-> t.dtypes,
               missing_values      |-> [c \in Range(t.columns) |->
                                          isnull_sum(t.values[c], t.isna[c])],
               numeric_summary     |-> numeric.value[1],
               categorical_summary |-> categorical_summary(t)]>>]

AnalyzeLoaded(pre) == Analysis(pre, pre.w.data[1], numeric_summary(pre.w.data[1]))

analyze(w) == AnalyzeLoaded(EnsureLoaded(w))

----------------------------------------------------------------------------
(* DataAnalyzer.create_visualizations *)

DefaultSavePath == "plots/"
OrphanSavePath == "sem_pai/plots"
ReadOnlySavePath == "somente_leitura/plots"
SavePaths == {DefaultSavePath, OrphanSavePath, ReadOnlySavePath}

\* the directory a save path is to be created in: there and writable, not
\* there, or there and read-only
Parent(p) ==
    CASE p = DefaultSavePath  -> "writable"
      [] p = OrphanSavePath   -> "missing"
      [] p = ReadOnlySavePath -> "readonly"

\* Path.mkdir(exist_ok=...) on file system f: [f, error]
mkdir(f, p, exist_ok) ==
    CASE f[p] = "dir"  -> [f |-> f, error |-> IF exist_ok THEN "" ELSE "FileExistsError"]
      [] f[p] = "file" -> [f |-> f, error |-> "FileExistsError"]
      [] OTHER ->
           CASE Parent(p) = "missing"  -> [f |-> f, error |-> "FileNotFoundError"]
             [] Parent(p) = "readonly" -> [f |-> f, error |-> "PermissionError"]
             [] OTHER -> [f |-> [f EXCEPT ![p] = "dir"], error |-> ""]

\* a panel of plt.subplots(1, n) that nothing was drawn in
EmptyPanel == [kind |-> "empty", column |-> "", bins |-> 0, bars |-> <<>>]

\* plt.close(): closes the current figure if there is one
close(figs) == IF figs > 0 THEN figs - 1 ELSE 0

HistBins == 30

\* lines 110-119: the panels of the numeric columns; the title and the axis
\* labels of a panel are functions of its column
distribution_axes(t, numeric_cols) ==
    [i \in 1..Len(numeric_cols) |->
       IF numeric_cols[i] # "id"
       THEN [kind   |-> "hist",
             column |-> numeric_cols[i],
             bins   |-> HistBins,
             bars   |-> <<count(t.values[numeric_cols[i]], t.isna[numeric_cols[i]])>>]
       ELSE EmptyPanel]

\* lines 108-123: the figure of the numeric columns
plot_distributions(w, t, p) ==
    IF Len(select_dtypes(t, {"number"})) > 0
    THEN [w EXCEPT !.images[<<p, "distribuicoes.png">>] =
                       <<distribution_axes(t, select_dtypes(t, {"number"}))>>,
                   !.openFigs = close(w.openFigs + 1)]
    ELSE w

\* lines 128-137: the panels of the categorical columns
categorical_axes(t, categorical_cols) ==
    [i \in 1..Len(categorical_cols) |->
       [kind   |-> "bar",
        column |-> categorical_cols[i],
        bins   |-> 0,
        bars   |-> value_counts(t.values[categorical_cols[i]],
                                t.isna[categorical_cols[i]])]]

\* lines 126-141 without plt.close()
plot_categorical_unclosed(w, t, p) ==
    IF Len(select_dtypes(t, {"object", "category", "bool"})) > 0
    THEN [w EXCEPT !.images[<<p, "categoricas.png">>] =
                       <<categorical_axes(t, select_dtypes(t, {"object", "category", "bool"}))>>,
                   !.openFigs = w.openFigs + 1]
    ELSE w

\* lines 126-141: the figure of the categorical columns
plot_categorical(w, t, p) ==
    IF Len(select_dtypes(t, {"object", "category", "bool"})) > 0
    THEN [w EXCEPT !.images[<<p, "categoricas.png">>] =
                       <<categorical_axes(t, select_dtypes(t, {"object", "category", "bool"}))>>,
                   !.openFigs = close(w.openFigs + 1)]
    ELSE w

\* lines 100-143, pre being the outcome of lines 97-98 and made of line 101
Visualize(pre, made, save_path) ==
    IF made.error # ""
    THEN [pre EXCEPT !.raised = TRUE, !.error = made.error]
    ELSE [pre EXCEPT !.w = plot_categorical(
                               plot_distributions([pre.w EXCEPT !.fs = made.f],
                                                  pre.w.data[1], save_path),
                               pre.w.data[1], save_path)]

\* line 101 as save_dir.mkdir()
VisualizeLoadedStrict(pre, save_path) ==
    Visualize(pre, mkdir(pre.w.fs, save_path, FALSE), save_path)

VisualizeLoaded(pre, save_path) ==
    Visualize(pre, mkdir(pre.w.fs, save_path, TRUE), save_path)

create_visualizations(w, save_path) == VisualizeLoaded(EnsureLoaded(w), save_path)

----------------------------------------------------------------------------
(* main *)

\* lines 155-168 once load_data, analyze and create_visualizations have run
\* with outcomes loaded, analysed and rendered; beside the outcome of a call,
\* `tables` lists the table load_data returned and the tables analyze and
\* create_visualizations worked on
MainRendered(w, loaded, analysed, rendered) ==
    [w      |-> [rendered.w EXCEPT !.data_path = w.data_path, !.data = w.data],
     value  |-> IF rendered.raised THEN None ELSE analysed.value,
     raised |-> rendered.raised,
     error  |-> rendered.error,
     loads  |-> loaded.loads + analysed.loads + rendered.loads,
     gens   |-> loaded.gens + analysed.gens + rendered.gens,
     tables |-> <<loaded.value[1], analysed.w.data[1], rendered.w.data[1]>>]

\* analyze raised: main stops there
MainFailed(w, loaded, analysed) ==
    [w      |-> [analysed.w EXCEPT !.data_path = w.data_path, !.data = w.data],
     value  |-> None,
     raised |-> TRUE,
     error  |-> analysed.error,
     loads  |-> loaded.loads + analysed.loads,
     gens   |-> loaded.gens + analysed.gens,
     tables |-> <<loaded.value[1], analysed.w.data[1]>>]

MainAnalysed(w, loaded, analysed) ==
    IF analysed.raised
    THEN MainFailed(w, loaded, analysed)
    ELSE MainRendered(w, loaded, analysed,
                      create_visualizations(analysed.w, DefaultSavePath))

MainLoaded(w, loaded) == MainAnalysed(w, loaded, analyze(loaded.w))

\* lines 146-168: a fresh analyzer of the default path, discarded at return
main(w) == MainLoaded(w, load_data([w EXCEPT !.data_path = DefaultPath, !.data = None]))

----------------------------------------------------------------------------
(* The state machine: the calls a caller can make on one analyzer, main(),  *)
(* and draws that other code makes from the global random generator.        *)

ImageNames == {"distribuicoes.png", "categoricas.png"}

World ==
    [data_path |-> data_path, data |-> data, rng |-> rng, fs |-> fs,
     images |-> images, openFigs |-> openFigs, lastSample |-> lastSample]

\* the state after a call with outcome r
Commit(op, arg, r) ==
    /\ data_path' = r.w.data_path
    /\ data' = r.w.data
    /\ rng' = r.w.rng
    /\ fs' = r.w.fs
    /\ images' = r.w.images
    /\ openFigs' = r.w.openFigs
    /\ lastSample' = r.w.lastSample
    /\ ret' = [op |-> op, arg |-> arg, value |-> r.value, raised |-> r.raised,
               error |-> r.error, loads |-> r.loads, gens |-> r.gens,
               tables |-> r.tables]
    /\ UNCHANGED disk

\* a call is evaluated once and its outcome committed
Call(op, arg, outcome) == \E r \in {outcome} : Commit(op, arg, r)

Init ==
    /\ data_path = DefaultPath
    /\ data = None
    /\ disk \in DiskContents
    /\ rng \in 0..(RngMod - 1)
    /\ fs \in {[p \in SavePaths |-> IF p = DefaultSavePath THEN k ELSE "absent"] :
                 k \in {"absent", "dir", "file"}}
    /\ images = [k \in SavePaths \X ImageNames |-> None]
    /\ openFigs = 0
    /\ ret = [op |-> "__init__", arg |-> DefaultPath, value |-> None,
              raised |-> FALSE, error |-> "", loads |-> 0, gens |-> 0,
              tables |-> <<>>]
    /\ lastSample = None

\* DataAnalyzer(p), or an assignment to data_path: a fresh analyzer
NewAnalyzer(p) ==
    Call("__init__", p, Skip([World EXCEPT !.data_path = p, !.data = None]))

\* analyzer.data = pd.DataFrame()
SetEmptyData ==
    Call("set_data", "", Skip([World EXCEPT !.data = <<EmptyDataFrame>>]))

LoadData == Call("load_data", "", load_data(World))

GenerateSampleData == Call("generate_sample_data", "", generate_sample_data(World))

Analyze == Call("analyze", "", analyze(World))

CreateVisualizations(p) ==
    Call("create_visualizations", p, create_visualizations(World, p))

Main == Call("main", "", main(World))

\* some other code draws once from the global random generator
EnvDraw == Call("draw", "", Skip([World EXCEPT !.rng = Advance(rng, 1)]))

Next ==
    \/ \E p \in DataPaths : NewAnalyzer(p)
    \/ SetEmptyData
    \/ LoadData
    \/ GenerateSampleData
    \/ Analyze
    \/ \E p \in SavePaths : CreateVisualizations(p)
    \/ Main
    \/ EnvDraw

Spec == Init /\ [][Next]_vars

----------------------------------------------------------------------------
(* Properties *)

\* the number of rows and the columns the tests expect of the sample
ExpectedRows == 1000
ExpectedColumns == <<"id", "categoria", "valor", "data", "ativo">>

\* load_data cannot use the file: there is none at the path, or it does not parse
FallsBack == ~exists(data_path) \/ ~read_csv(disk[1]).ok

\* the table has a column of an integer or float dtype
HasNumericColumn(t) ==
    \E c \in Range(t.columns) : t.dtypes[c] \in {"int64", "float64"}

\* the numeric columns other than the identifier, in table order
EligibleColumns(t) ==
    SelectSeq(t.columns, LAMBDA c : t.dtypes[c] \in {"int64", "float64"} /\ c # "id")

\* d is a cached table without rows and without columns
IsEmptyTable(d) == d # None /\ d[1].nrows = 0 /\ Len(d[1].columns) = 0

\* C1: load_data never raises and always returns a table; when the path does
\* not exist or the file does not parse, the returned table is the sample
\* generate_sample_data made (1000 rows, 5 columns) and it is the cached table.
C1_LoadDataAlwaysReturnsTable ==
    ret.op = "load_data" =>
        /\ ~ret.raised
        /\ Len(ret.value) = 1
        /\ FallsBack =>
             /\ ret.gens = 1
             /\ shape(ret.value[1]) = <<ExpectedRows, Len(ExpectedColumns)>>
             /\ ret.value = lastSample
             /\ data = ret.value

\* load_data met a file that does not parse and returned the sample
C1_Witness ==
    /\ ret.op = "load_data"
    /\ data_path = DefaultPath
    /\ disk # None
    /\ ~read_csv(disk[1]).ok
    /\ ~ret.raised
    /\ ret.gens = 1
    /\ data = ret.value

\* C2: every call of generate_sample_data returns the same table: the table a
\* call returns equals, column by column, the table the call before it
\* returned, whatever session made either call and whatever was drawn from
\* the global random generator in between.
C2_SampleReproducible ==
    [][(lastSample # None /\ ret'.gens > 0) => lastSample' = lastSample]_vars

\* main's own analyzer generated the sample while the analyzer under test
\* holds the sample of an earlier call, and the two are equal
C2_Witness ==
    /\ ret.op = "main"
    /\ ret.gens = 1
    /\ data # None
    /\ data[1].nrows = ExpectedRows
    /\ data = lastSample
    /\ ret.tables[1] = data[1]

\* C3: generate_sample_data yields exactly 1000 rows and the columns id,
\* categoria, valor, data, ativo in that order, without missing values, with
\* every categoria in {A, B, C, D} and with id equal to 1..1000 in order.
C3_SampleShape ==
    lastSample # None =>
        /\ lastSample[1].nrows = ExpectedRows
        /\ lastSample[1].columns = ExpectedColumns
        /\ \A c \in Range(ExpectedColumns) :
             /\ Len(lastSample[1].values[c]) = ExpectedRows
             /\ lastSample[1].isna[c] = {}
        /\ \A i \in 1..ExpectedRows :
             /\ lastSample[1].values["categoria"][i] \in {"A", "B", "C", "D"}
             /\ lastSample[1].values["id"][i] = i

\* generate_sample_data was called and returned its 1000-row table
C3_Witness ==
    /\ ret.op = "generate_sample_data"
    /\ ret.gens = 1
    /\ ret.value = lastSample
    /\ ret.value[1].nrows = ExpectedRows
    /\ ret.value[1].values["id"][ExpectedRows] = ExpectedRows

\* C4: analyze on a session whose table has no rows and no columns does not
\* raise and returns shape (0, 0), no columns, no missing-value entries and
\* no categorical summary; it does not load and keeps the empty table.
C4_AnalyzeEmptyTable ==
    [][(IsEmptyTable(data) /\ ret'.op = "analyze") =>
          /\ ~ret'.raised
          /\ ret'.value[1].shape = <<0, 0>>
          /\ ret'.value[1].columns = <<>>
          /\ DOMAIN ret'.value[1].missing_values = {}
          /\ DOMAIN ret'.value[1].categorical_summary = {}
          /\ ret'.loads = 0
          /\ IsEmptyTable(data')]_vars

\* analyze returned for the empty table
C4_Witness ==
    /\ ret.op = "analyze"
    /\ IsEmptyTable(data)
    /\ ~ret.raised
    /\ ret.loads = 0
    /\ ret.value[1].shape = <<0, 0>>

\* C5: the categorical summary analyze returns has exactly one entry for each
\* column that is not numeric, boolean columns included, and each entry maps
\* the values of its column to their frequencies.
C5_CategoricalSummaryCoversNonNumeric ==
    (ret.op = "analyze" /\ ~ret.raised) =>
        /\ DOMAIN ret.value[1].categorical_summary =
             {c \in Range(data[1].columns) :
                data[1].dtypes[c] \notin {"int64", "float64"}}
        /\ \A c \in DOMAIN ret.value[1].categorical_summary :
             ret.value[1].categorical_summary[c] =
                value_counts(data[1].values[c], data[1].isna[c])

\* C6, as claimed: the result of analyze has a numeric summary if and only if
\* the table has a numeric column; without one the entry is absent.
C6_NumericSummaryOmitted ==
    (ret.op = "analyze" /\ ~ret.raised) =>
        (("numeric_summary" \in DOMAIN ret.value[1]) <=> HasNumericColumn(data[1]))

\* C6, amended: the result of analyze always has the numeric_summary entry,
\* and the entry is non-empty if and only if the table has a numeric column:
\* without one it is present and empty.
C6_NumericSummaryEmpty ==
    (ret.op = "analyze" /\ ~ret.raised) =>
        /\ "numeric_summary" \in DOMAIN ret.value[1]
        /\ (DOMAIN ret.value[1].numeric_summary # {}) <=> HasNumericColumn(data[1])

\* analyze returned for a table that has columns, none of them numeric
C6_Witness ==
    /\ ret.op = "analyze"
    /\ ~ret.raised
    /\ Len(data[1].columns) > 0
    /\ ~HasNumericColumn(data[1])
    /\ DOMAIN ret.value[1].numeric_summary = {}

\* C7: create_visualizations writes the distributions image if and only if
\* the table has a numeric column other than id, and the image then has
\* exactly one panel per such column, holding that column's histogram.
C7_DistributionsOnlyEligible ==
    [][(/\ ret'.op = "create_visualizations"
        /\ ~ret'.raised
        /\ images[<<ret'.arg, "distribuicoes.png">>] = None) =>
          /\ (images'[<<ret'.arg, "distribuicoes.png">>] # None)
                <=> (Len(EligibleColumns(data'[1])) > 0)
          /\ images'[<<ret'.arg, "distribuicoes.png">>] # None =>
               /\ Len(images'[<<ret'.arg, "distribuicoes.png">>][1])
                    = Len(EligibleColumns(data'[1]))
               /\ \A i \in 1..Len(EligibleColumns(data'[1])) :
                    /\ images'[<<ret'.arg, "distribuicoes.png">>][1][i].kind = "hist"
                    /\ images'[<<ret'.arg, "distribuicoes.png">>][1][i].column
                         = EligibleColumns(data'[1])[i]]_vars

\* mkdir on path p of file system f cannot succeed
CannotCreate(f, p) ==
    \/ f[p] = "file"
    \/ f[p] = "absent" /\ Parent(p) # "writable"

\* C8: create_visualizations creates the output directory when it is absent,
\* does not fail when it exists, and the directory exists when the call
\* returns (so a second call with the same path succeeds and leaves it in
\* place); a failure to create the directory is raised to the caller.
C8_OutputDirectory ==
    [][ret'.op = "create_visualizations" =>
          /\ ~ret'.raised => fs'[ret'.arg] = "dir"
          /\ fs[ret'.arg] = "dir" => ~ret'.raised /\ fs' = fs
          /\ (fs[ret'.arg] = "absent" /\ Parent(ret'.arg) = "writable") => ~ret'.raised
          /\ CannotCreate(fs, ret'.arg) =>
               /\ ret'.raised
               /\ ret'.error \in {"FileExistsError", "FileNotFoundError", "PermissionError"}
               /\ fs' = fs
               /\ images' = images]_vars

\* create_visualizations returned and its directory, absent at first, is there
\* with an image in it
C8_Witness ==
    /\ ret.op = "create_visualizations"
    /\ ~ret.raised
    /\ ret.arg = DefaultSavePath
    /\ fs[ret.arg] = "dir"
    /\ images[<<ret.arg, "categoricas.png">>] # None

C10_LoadOnce ==
    [][/\ (ret'.op \in {"analyze", "create_visualizations"} /\ data # None) =>
             /\ ret'.loads = 0
             /\ data' = data
       /\ (ret'.op \in {"analyze", "create_visualizations"} /\ data = None) =>
             /\ ret'.loads = 1
             /\ data' # None
       /\ ret'.op = "main" =>
             /\ ret'.loads = 1
             /\ Len(ret'.tables) = 3
             /\ ret'.tables[2] = ret'.tables[1]
             /\ ret'.tables[3] = ret'.tables[1]
             /\ data' = data]_vars

\* main ran its three steps on the table of its single load
C10_Witness ==
    /\ ret.op = "main"
    /\ ~ret.raised
    /\ ret.loads = 1
    /\ Len(ret.tables) = 3
    /\ ret.tables[3] = ret.tables[1]

====
